---- MODULE Spec2Model ----
(***************************************************************************)
(* Model of virtinst/generatename.py (generate_name, libvirt_collision)    *)
(* and virtinst/Installer.py (Installer and its subclasses).               *)
(*                                                                         *)
(* Three specifications share the module:                                  *)
(*   SpecName  - one run of generate_name, one loop iteration per step     *)
(*   SpecBoot  - _get_bootdev / _build_boot_order applied to drawn inputs  *)
(*   Spec      - one Installer instance driven through its public methods  *)
(***************************************************************************)
EXTENDS Integers, Sequences, FiniteSets, TLC

VARIABLES
    \* ---- generate_name ----
    gin,        \* the arguments of the running generate_name call
    gi,         \* 1-based position in numrange of the next candidate
    gpc,        \* "loop" while iterating, "done" once returned or raised
    gresult,    \* [kind, name]: "return" / "ValueError" / propagated error
    gtries,     \* number of candidates handed to collide()
    gcalls,     \* number of collision_cb invocations
    glast,      \* [name, out, inlist]: the last candidate and what the probe did
    \* ---- boot device resolution ----
    bvariant,   \* the Installer class whose _get_bootdev is used
    bisinstall, \* the isinstall argument
    bdisks,     \* guest.get_devices("disk"): the .device of each, in order
    bprimary,   \* the value a _get_bootdev override hands to _build_boot_order
    bres,       \* [op, val]: the call made and what it returned
    \* ---- one Installer instance ----
    variant,         \* the class of the instance
    _location,       \* self._location
    _cdrom,          \* self._cdrom
    _scratchdir,     \* self._scratchdir
    install_devices, \* self.install_devices
    _tmpfiles,       \* self._tmpfiles
    _tmpvols,        \* self._tmpvols
    resolves,        \* history: [calls, done, late] of _get_scratchdir, and first path
    last             \* history: the last call and its outcome

nameVars == <<gin, gi, gpc, gresult, gtries, gcalls, glast>>
bootVars == <<bvariant, bisinstall, bdisks, bprimary, bres>>
instVars == <<variant, _location, _cdrom, _scratchdir, install_devices,
              _tmpfiles, _tmpvols, resolves, last>>
vars == <<nameVars, bootVars, instVars>>

------------------------------------------------------------------------------
(* Bounds *)
MaxStart == 2       \* start_num ranges over 1..MaxStart
MaxKnown == 2       \* the probe is tabulated on the first MaxKnown candidates
MaxDisks == 3       \* a guest has at most MaxDisks disk devices
MaxTmp == 2         \* at most MaxTmp tracked temp files, and as many volumes
MaxResolves == 3    \* _get_scratchdir is invoked at most MaxResolves times

(* generatename.py:64  range(start_num, start_num + 100000) *)
RangeSize == 100000

NoName == "<none>"

------------------------------------------------------------------------------
(* What a call of collision_cb can do: return None, return a falsy value  *)
(* that is not None, return a truthy value/object, raise libvirtError, or *)
(* raise any other exception.                                             *)
ProbeOutcomes == {"None", "False", "Truthy", "libvirtError", "otherError"}

collision_cb(probe, name) ==
    IF name \in DOMAIN probe.tbl THEN probe.tbl[name] ELSE probe.dflt

Raises(v) == v \in {"libvirtError", "otherError"}
Falsy(v)  == v \in {"None", "False"}

(* libvirt_collision with every exception swallowed (bare except) *)
libvirt_collision_swallow_all(out) ==
    CASE out \in {"False", "Truthy"}           -> "True"
      [] out \in {"None"}                      -> "False"
      [] out \in {"libvirtError", "otherError"} -> "False"

(* generatename.py:11-24.  val is always a string here, so the           *)
(* `val is not None` test passes.  Result: "True"/"False", or the name of *)
(* the exception that escapes.                                            *)
libvirt_collision(out) ==
    CASE out \in {"False", "Truthy"} -> "True"     \* cb(val) is not None
      [] out = "None"                -> "False"
      [] out = "libvirtError"        -> "False"    \* except libvirtError: pass
      [] out = "otherError"          -> "otherError"

(* collide() that consults only the callback *)
collide_no_list(in, n) ==
    IF in.lib_collision
    THEN libvirt_collision(collision_cb(in.probe, n))
    ELSE collision_cb(in.probe, n)

(* generatename.py:56-62 *)
collide(in, n) ==
    IF n \in in.collidelist THEN "True"
    ELSE IF in.lib_collision
         THEN libvirt_collision(collision_cb(in.probe, n))
         ELSE collision_cb(in.probe, n)

(* numrange without the leading None entry *)
numrange_len_no_none(in) == RangeSize

(* generatename.py:64-66  len(numrange) *)
numrange_len(in) == RangeSize + (IF in.force_num THEN 0 ELSE 1)

(* generatename.py:65-66  numrange[k] is None (k is 1-based) *)
numrange_is_none(in, k) == (~in.force_num) /\ k = 1

(* generatename.py:64-66  numrange[k] when it is a number *)
numrange_num(in, k) == in.start_num + (k - 1) - (IF in.force_num THEN 0 ELSE 1)

(* generatename.py:69-72 *)
tryname(in, k) ==
    in.base
    \o (IF numrange_is_none(in, k) THEN ""
        ELSE in.sep \o ToString(numrange_num(in, k)))
    \o in.suffix

------------------------------------------------------------------------------
(* The arguments generate_name is exercised with *)
Bases    == {"foo"}
Suffixes == {"", ".img"}
Seps     == {"-"}
Starts   == 1..MaxStart

ArgSets ==
    [base: Bases, suffix: Suffixes, sep: Seps, start_num: Starts,
     force_num: BOOLEAN, lib_collision: BOOLEAN]

WithArgs(a, cl, p) ==
    [base |-> a.base, suffix |-> a.suffix, sep |-> a.sep,
     start_num |-> a.start_num, force_num |-> a.force_num,
     lib_collision |-> a.lib_collision, collidelist |-> cl, probe |-> p]

KnownNames(a) ==
    { tryname(WithArgs(a, {}, [tbl |-> <<>>, dflt |-> "None"]), k) : k \in 1..MaxKnown }

Collides(in, n) ==
    LET r == collide(in, n) IN (~Raises(r)) /\ (~Falsy(r))

(* A run that walks the whole range: every tabulated name and the default *)
(* collide.  Such runs are exercised with a uniform probe, no suffix and  *)
(* an empty collidelist only.                                             *)
WalksWholeRange(in) ==
    /\ \A n \in DOMAIN in.probe.tbl : Collides(in, n)
    /\ Collides(in, NoName)

Uniform(in) ==
    /\ \A n \in DOMAIN in.probe.tbl : in.probe.tbl[n] = in.probe.dflt
    /\ in.collidelist = {}
    /\ in.suffix = ""

(* The argument sets of the runs that are started *)
GenInput(in) == WalksWholeRange(in) => Uniform(in)

------------------------------------------------------------------------------
(* Boot device resolution, Installer.py                                   *)

Variants == {"Installer", "ContainerInstaller", "PXEInstaller",
             "LiveCDInstaller", "ImportInstaller"}

(* VirtualDisk.device values *)
DEVICE_DISK   == "disk"
DEVICE_CDROM  == "cdrom"
DEVICE_FLOPPY == "floppy"
DEVICE_LUN    == "lun"
DiskDevices == {DEVICE_DISK, DEVICE_CDROM, DEVICE_FLOPPY, DEVICE_LUN}

(* OSXML.BOOT_DEVICE_* values *)
BOOT_DEVICE_HARDDISK == "hd"
BOOT_DEVICE_CDROM    == "cdrom"
BOOT_DEVICE_FLOPPY   == "fd"
BOOT_DEVICE_NETWORK  == "network"
BootDevices == {BOOT_DEVICE_HARDDISK, BOOT_DEVICE_CDROM,
                BOOT_DEVICE_FLOPPY, BOOT_DEVICE_NETWORK}

None == "None"
NotImplementedError == "NotImplementedError"

DiskLists == UNION { [1..n -> DiskDevices] : n \in 0..MaxDisks }

(* Installer.py:381-389 *)
_disk_to_bootdev(device) ==
    IF device = DEVICE_DISK THEN BOOT_DEVICE_HARDDISK
    ELSE IF device = DEVICE_CDROM THEN BOOT_DEVICE_CDROM
    ELSE IF device = DEVICE_FLOPPY THEN BOOT_DEVICE_FLOPPY
    ELSE BOOT_DEVICE_HARDDISK

(* PXEInstaller._get_bootdev looking at the first disk only *)
pxe_get_bootdev_first_only(isinstall, disks) ==
    IF (~isinstall) /\ Len(disks) > 0 /\ disks[1] = DEVICE_DISK
    THEN BOOT_DEVICE_HARDDISK
    ELSE BOOT_DEVICE_NETWORK

(* Installer.py:345-354 *)
pxe_get_bootdev(isinstall, disks) ==
    IF (~isinstall) /\ SelectSeq(disks, LAMBDA d : d = DEVICE_DISK) # <<>>
    THEN BOOT_DEVICE_HARDDISK
    ELSE BOOT_DEVICE_NETWORK

(* Installer.py:375-379 *)
import_get_bootdev(isinstall, disks) ==
    IF disks = <<>> THEN BOOT_DEVICE_HARDDISK
    ELSE _disk_to_bootdev(disks[1])

(* Installer.py:240-241, 338-341, 345-354, 367-368, 375-379 *)
_get_bootdev(cls, isinstall, disks) ==
    CASE cls = "Installer"          -> NotImplementedError
      [] cls = "ContainerInstaller" -> BOOT_DEVICE_HARDDISK
      [] cls = "PXEInstaller"       -> pxe_get_bootdev(isinstall, disks)
      [] cls = "LiveCDInstaller"    -> BOOT_DEVICE_CDROM
      [] cls = "ImportInstaller"    -> import_get_bootdev(isinstall, disks)

(* Installer.py:184-189, the loop from position k on *)
RECURSIVE scan_disks(_, _, _)
scan_disks(bootorder, disks, k) ==
    IF k > Len(disks) THEN bootorder
    ELSE IF disks[k] = DEVICE_DISK
         THEN (IF BOOT_DEVICE_HARDDISK \notin { bootorder[i] : i \in DOMAIN bootorder }
               THEN Append(bootorder, BOOT_DEVICE_HARDDISK)
               ELSE bootorder)                       \* break
         ELSE scan_disks(bootorder, disks, k + 1)

(* _build_boot_order with the break outside the if: only disks[0] counts *)
_build_boot_order_break_early(bootdev, disks) ==
    IF bootdev = None THEN <<>>
    ELSE IF Len(disks) > 0 /\ disks[1] = DEVICE_DISK /\ bootdev # BOOT_DEVICE_HARDDISK
         THEN <<bootdev, BOOT_DEVICE_HARDDISK>>
         ELSE <<bootdev>>

(* Installer.py:175-191, bootdev being the result of line 174 *)
_build_boot_order(bootdev, disks) ==
    IF bootdev = None THEN <<>>
    ELSE scan_disks(<<bootdev>>, disks, 1)

InitBoot ==
    /\ bvariant \in Variants
    /\ bisinstall \in BOOLEAN
    /\ bdisks \in DiskLists
    /\ bprimary \in BootDevices \cup {None}
    /\ bres = [op |-> "none", val |-> <<>>]

(* self._get_bootdev(isinstall, guest) on a subclass of this file *)
GetBootdev ==
    /\ bres.op = "none"
    /\ bvariant # "Installer"
    /\ bres' = [op |-> "_get_bootdev",
                val |-> <<_get_bootdev(bvariant, bisinstall, bdisks)>>]
    /\ UNCHANGED <<nameVars, instVars, bvariant, bisinstall, bdisks, bprimary>>

(* Installer.py:240-241, the base class hook raises *)
GetBootdevBase ==
    /\ bres.op = "none"
    /\ bvariant = "Installer"
    /\ bres' = [op |-> "raise", val |-> <<NotImplementedError>>]
    /\ UNCHANGED <<nameVars, instVars, bvariant, bisinstall, bdisks, bprimary>>

(* Installer.py:173-191 on a subclass of this file *)
BuildBootOrder ==
    /\ bres.op = "none"
    /\ bvariant # "Installer"
    /\ bres' = [op |-> "_build_boot_order",
                val |-> _build_boot_order(
                            _get_bootdev(bvariant, bisinstall, bdisks), bdisks)]
    /\ bprimary' = _get_bootdev(bvariant, bisinstall, bdisks)
    /\ UNCHANGED <<nameVars, instVars, bvariant, bisinstall, bdisks>>

(* Installer.py:173-191 with a _get_bootdev override returning bprimary   *)
(* (None is the kernel boot case of line 176)                             *)
BuildBootOrderHook ==
    /\ bres.op = "none"
    /\ bres' = [op |-> "_build_boot_order",
                val |-> _build_boot_order(bprimary, bdisks)]
    /\ UNCHANGED <<nameVars, instVars, bvariant, bisinstall, bdisks, bprimary>>

------------------------------------------------------------------------------
(* The Installer instance, Installer.py                                   *)

(* The classes of Installer.py, and a subclass that overrides            *)
(* scratchdir_required() to return True (none of this file does).        *)
InstVariants == Variants \cup {"ScratchInstaller"}

(* Python values handed to set_cdrom: t is the type, n the numeric value  *)
(* of a bool or an int.                                                   *)
PyBool(b) == [t |-> "bool", n |-> IF b THEN 1 ELSE 0]
PyInt(k)  == [t |-> "int", n |-> k]
PyNone    == [t |-> "NoneType", n |-> 0]
PyStr     == [t |-> "str", n |-> 0]
PyValues  == {PyBool(TRUE), PyBool(FALSE), PyInt(0), PyInt(1), PyInt(2),
              PyNone, PyStr}

(* Python ==: bool is a subclass of int, so True == 1 and False == 0 *)
PyEq(a, b) ==
    IF a.t \in {"bool", "int"} /\ b.t \in {"bool", "int"}
    THEN a.n = b.n
    ELSE a = b

(* Python `x in [..]` *)
PyIn(x, lst) == \E i \in DOMAIN lst : PyEq(x, lst[i])

(* Installer.py:126  enable not in [True, False] *)
cdrom_rejected(enable) == ~PyIn(enable, <<PyBool(TRUE), PyBool(FALSE)>>)

(* Installer.py:32-33 *)
XEN_SCRATCH     == "/var/lib/xen"
LIBVIRT_SCRATCH == "/var/lib/libvirt/boot"
USER_SCRATCH    == "~/.virtinst/boot"

(* What the host answers during one _get_scratchdir call *)
ScratchEnvs ==
    [session: BOOLEAN, system: {"SunOS", "Linux"}, type: {"test", "xen", "qemu"},
     exists: BOOLEAN, writable: BOOLEAN, userdir: BOOLEAN, makedirs: BOOLEAN]

(* Installer.py:148-157 *)
_get_system_scratchdir(env) ==
    IF env.system = "SunOS" THEN "/var/tmp"
    ELSE IF env.type = "test" THEN "/tmp"
    ELSE IF env.type = "xen" THEN XEN_SCRATCH
    ELSE LIBVIRT_SCRATCH

(* Installer.py:159-171.  os.makedirs raises OSError when the directory  *)
(* cannot be created.                                                    *)
_get_scratchdir(env) ==
    LET scratch == IF ~env.session THEN _get_system_scratchdir(env) ELSE None
    IN  IF scratch = None \/ ~env.exists \/ ~env.writable
        THEN IF env.userdir \/ env.makedirs
             THEN [raised |-> FALSE, path |-> USER_SCRATCH]
             ELSE [raised |-> TRUE, path |-> None]
        ELSE [raised |-> FALSE, path |-> scratch]

(* Installer.py:255-261; no class of the file overrides it *)
scratchdir_required(v) == v = "ScratchInstaller"

(* get_scratchdir that resolves on every read *)
must_resolve_always(cached) == TRUE

(* Installer.py:117  if not self._scratchdir *)
must_resolve(cached) == cached = None

(* VirtualDisk: dev.path of a device given `path` (a relative path is    *)
(* made absolute), and the paths handed to set_location.                 *)
RawLocations == {None, "/iso/a.iso", "b.iso"}
VirtualDisk_path(path) == IF path = "b.iso" THEN "/cwd/b.iso" ELSE path

(* Installer.py:193-199; valid is the outcome of dev.validate() *)
_make_cdrom_dev(path, valid) ==
    IF valid
    THEN [raised |-> FALSE,
          dev |-> [device |-> DEVICE_CDROM, path |-> VirtualDisk_path(path),
                   read_only |-> TRUE]]
    ELSE [raised |-> TRUE, dev |-> None]

(* Installer.py:243-244 and 361-362 *)
_validate_location(v, val, valid) ==
    IF v = "LiveCDInstaller"
    THEN LET r == _make_cdrom_dev(val, valid)
         IN  IF r.raised THEN [raised |-> TRUE, val |-> None]
             ELSE [raised |-> FALSE, val |-> r.dev.path]
    ELSE [raised |-> FALSE, val |-> val]

TmpFileNames == {"/scratch/vmlinuz", "/scratch/initrd.img"}
TmpVolNames  == {"boot-vol"}

InitInst ==
    /\ variant \in InstVariants
    /\ _location = None
    /\ _cdrom = PyBool(FALSE)
    /\ _scratchdir = None
    /\ install_devices = <<>>
    /\ _tmpfiles = <<>>
    /\ _tmpvols = <<>>
    /\ resolves = [calls |-> 0, done |-> 0, late |-> 0, first |-> None]
    /\ last = [op |-> "init"]

(* Installer.py:125-128 *)
SetCdrom ==
    \E enable \in PyValues :
        /\ IF cdrom_rejected(enable)
           THEN /\ UNCHANGED _cdrom
                /\ last' = [op |-> "set_cdrom", ok |-> FALSE, arg |-> enable,
                            pre |-> _cdrom]
           ELSE /\ _cdrom' = enable
                /\ last' = [op |-> "set_cdrom", ok |-> TRUE, arg |-> enable,
                            pre |-> _cdrom]
        /\ UNCHANGED <<nameVars, bootVars, variant, _location, _scratchdir, install_devices,
                       _tmpfiles, _tmpvols, resolves>>

(* set_location that stores the raw value first *)
SetLocationStoreFirst ==
    \E val \in RawLocations, valid \in BOOLEAN :
        LET r == _validate_location(variant, val, valid)
        IN  /\ _location' = val
            /\ last' = [op |-> "set_location", ok |-> ~r.raised, arg |-> val,
                        pre |-> _location, ret |-> r.val]
            /\ UNCHANGED <<nameVars, bootVars, variant, _cdrom, _scratchdir, install_devices,
                           _tmpfiles, _tmpvols, resolves>>

(* Installer.py:133-134 *)
SetLocation ==
    \E val \in RawLocations, valid \in BOOLEAN :
        LET r == _validate_location(variant, val, valid)
        IN  /\ IF r.raised THEN UNCHANGED _location ELSE _location' = r.val
            /\ last' = [op |-> "set_location", ok |-> ~r.raised, arg |-> val,
                        pre |-> _location, ret |-> r.val]
            /\ UNCHANGED <<nameVars, bootVars, variant, _cdrom, _scratchdir, install_devices,
                           _tmpfiles, _tmpvols, resolves>>

(* Installer.py:113-120 *)
GetScratchdir ==
    /\ IF ~scratchdir_required(variant)
       THEN /\ last' = [op |-> "get_scratchdir", ok |-> TRUE,
                        pre |-> _scratchdir, ret |-> None]
            /\ UNCHANGED <<_scratchdir, resolves>>
       ELSE IF must_resolve(_scratchdir)
       THEN \E env \in ScratchEnvs :
              LET r == _get_scratchdir(env)
              IN  /\ resolves.calls < MaxResolves
                  /\ _scratchdir' = IF r.raised THEN _scratchdir ELSE r.path
                  /\ resolves' =
                       [calls |-> resolves.calls + 1,
                        done  |-> resolves.done + (IF r.raised THEN 0 ELSE 1),
                        late  |-> resolves.late + (IF resolves.done > 0 THEN 1 ELSE 0),
                        first |-> IF resolves.first = None /\ ~r.raised
                                  THEN r.path ELSE resolves.first]
                  /\ last' = [op |-> "get_scratchdir", ok |-> ~r.raised,
                              pre |-> _scratchdir,
                              ret |-> IF r.raised THEN None ELSE r.path]
       ELSE /\ last' = [op |-> "get_scratchdir", ok |-> TRUE,
                        pre |-> _scratchdir, ret |-> _scratchdir]
            /\ UNCHANGED <<_scratchdir, resolves>>
    /\ UNCHANGED <<nameVars, bootVars, variant, _location, _cdrom, install_devices,
                   _tmpfiles, _tmpvols>>

(* A subclass's preparation records a fetched file in self._tmpfiles *)
TrackTmpFile ==
    \E f \in TmpFileNames :
        /\ Len(_tmpfiles) < MaxTmp
        /\ _tmpfiles' = Append(_tmpfiles, f)
        /\ last' = [op |-> "track"]
        /\ UNCHANGED <<nameVars, bootVars, variant, _location, _cdrom, _scratchdir, install_devices,
                       _tmpvols, resolves>>

(* A subclass's preparation records an uploaded volume in self._tmpvols *)
TrackTmpVol ==
    \E v \in TmpVolNames :
        /\ Len(_tmpvols) < MaxTmp
        /\ _tmpvols' = Append(_tmpvols, v)
        /\ last' = [op |-> "track"]
        /\ UNCHANGED <<nameVars, bootVars, variant, _location, _cdrom, _scratchdir, install_devices,
                       _tmpfiles, resolves>>

(* Installer.py:279-285.  The deletions run in order, the files first;    *)
(* fail = 0 when none raises, else the position of the os.unlink or       *)
(* vol.delete that raises, which ends the method.                         *)
Tracked == Len(_tmpfiles) + Len(_tmpvols)
cleanup_attempts(fail) == IF fail = 0 THEN Tracked ELSE fail

(* Installer.py:275-289 *)
Cleanup ==
    \E fail \in 0..Tracked :
        /\ IF fail = 0
           THEN /\ _tmpvols' = <<>>
                /\ _tmpfiles' = <<>>
                /\ install_devices' = <<>>
           ELSE UNCHANGED <<_tmpvols, _tmpfiles, install_devices>>
        /\ last' = [op |-> "cleanup", ok |-> fail = 0, pre |-> Tracked,
                    attempts |-> cleanup_attempts(fail),
                    cleared |-> fail = 0]
        /\ UNCHANGED <<nameVars, bootVars, variant, _location, _cdrom, _scratchdir, resolves>>

(* Installer.py:246-248 and 363-366: _prepare on the devices left by      *)
(* cleanup()                                                              *)
_prepare(v, devices, valid) ==
    IF v = "LiveCDInstaller"
    THEN LET r == _make_cdrom_dev(_location, valid)
         IN  IF r.raised THEN [raised |-> TRUE, devices |-> devices]
             ELSE [raised |-> FALSE, devices |-> Append(devices, r.dev)]
    ELSE [raised |-> FALSE, devices |-> devices]

(* prepare() that goes straight to _prepare *)
PrepareNoCleanup ==
    \E valid \in BOOLEAN :
        LET r == _prepare(variant, install_devices, valid)
        IN  /\ Len(install_devices) < 3
            /\ install_devices' = r.devices
            /\ last' = [op |-> "prepare", ok |-> ~r.raised,
                        pre |-> [devs |-> Len(install_devices), tracked |-> Tracked],
                        cleaned |-> FALSE, hook |-> TRUE]
            /\ UNCHANGED <<nameVars, bootVars, variant, _location, _cdrom, _scratchdir,
                           _tmpfiles, _tmpvols, resolves>>

(* Installer.py:291-293 *)
Prepare ==
    \E fail \in 0..Tracked, valid \in BOOLEAN :
        IF fail # 0
        THEN \* cleanup() raised: _prepare is not reached
             /\ last' = [op |-> "prepare", ok |-> FALSE,
                         pre |-> [devs |-> Len(install_devices), tracked |-> Tracked],
                         cleaned |-> FALSE, hook |-> FALSE]
             /\ UNCHANGED <<nameVars, bootVars, variant, _location, _cdrom, _scratchdir,
                            install_devices, _tmpfiles, _tmpvols, resolves>>
        ELSE LET r == _prepare(variant, <<>>, valid)
             IN  /\ _tmpvols' = <<>>
                 /\ _tmpfiles' = <<>>
                 /\ install_devices' = r.devices
                 /\ last' = [op |-> "prepare", ok |-> ~r.raised,
                             pre |-> [devs |-> Len(install_devices),
                                      tracked |-> Tracked],
                             cleaned |-> TRUE, hook |-> TRUE]
                 /\ UNCHANGED <<nameVars, bootVars, variant, _location, _cdrom, _scratchdir, resolves>>

------------------------------------------------------------------------------
(* One run of generate_name                                               *)
NoResult == [kind |-> "none", name |-> NoName]
NoProbe  == [name |-> NoName, out |-> "none", inlist |-> FALSE]

InitName ==
    /\ \E a \in ArgSets :
         \E cl \in SUBSET KnownNames(a), t \in [KnownNames(a) -> ProbeOutcomes],
            d \in ProbeOutcomes :
              /\ GenInput(WithArgs(a, cl, [tbl |-> t, dflt |-> d]))
              /\ gin = WithArgs(a, cl, [tbl |-> t, dflt |-> d])
    /\ gi = 1
    /\ gpc = "loop"
    /\ gresult = NoResult
    /\ gtries = 0
    /\ gcalls = 0
    /\ glast = NoProbe

(* What the iteration at position gi observes *)
CurName == tryname(gin, gi)
CurInList == CurName \in gin.collidelist
CurOut == IF CurInList THEN "none" ELSE collision_cb(gin.probe, CurName)
CurProbe == [name |-> CurName, out |-> CurOut, inlist |-> CurInList]
CurCalls == gcalls + (IF CurInList THEN 0 ELSE 1)

(* generatename.py:68-75, collide(tryname) is truthy: next iteration *)
GenCollide ==
    /\ gpc = "loop"
    /\ gi <= numrange_len(gin)
    /\ LET r == collide(gin, CurName) IN (~Raises(r)) /\ (~Falsy(r))
    /\ gi' = gi + 1
    /\ gtries' = gtries + 1
    /\ gcalls' = CurCalls
    /\ glast' = CurProbe
    /\ UNCHANGED <<bootVars, instVars, gin, gpc, gresult>>

(* generatename.py:74-75, collide(tryname) is falsy: return tryname *)
GenReturn ==
    /\ gpc = "loop"
    /\ gi <= numrange_len(gin)
    /\ Falsy(collide(gin, CurName))
    /\ gpc' = "done"
    /\ gresult' = [kind |-> "return", name |-> CurName]
    /\ gtries' = gtries + 1
    /\ gcalls' = CurCalls
    /\ glast' = CurProbe
    /\ UNCHANGED <<bootVars, instVars, gin, gi>>

(* generatename.py:74, collide(tryname) raises: the exception leaves      *)
(* generate_name                                                          *)
GenProbeRaise ==
    /\ gpc = "loop"
    /\ gi <= numrange_len(gin)
    /\ Raises(collide(gin, CurName))
    /\ gpc' = "done"
    /\ gresult' = [kind |-> collide(gin, CurName), name |-> NoName]
    /\ gtries' = gtries + 1
    /\ gcalls' = CurCalls
    /\ glast' = CurProbe
    /\ UNCHANGED <<bootVars, instVars, gin, gi>>

(* generatename.py:77, the for loop ran off the end of numrange *)
GenExhausted ==
    /\ gpc = "loop"
    /\ gi > numrange_len(gin)
    /\ gpc' = "done"
    /\ gresult' = [kind |-> "ValueError", name |-> NoName]
    /\ UNCHANGED <<bootVars, instVars, gin, gi, gtries, gcalls, glast>>


------------------------------------------------------------------------------
(* The specifications.  Each drives one part and holds the others at a    *)
(* fixed value.                                                           *)
IdleName ==
    /\ gin = WithArgs([base |-> "foo", suffix |-> "", sep |-> "-", start_num |-> 1,
                       force_num |-> FALSE, lib_collision |-> TRUE],
                      {}, [tbl |-> <<>>, dflt |-> "libvirtError"])
    /\ gi = 1
    /\ gpc = "idle"
    /\ gresult = NoResult
    /\ gtries = 0
    /\ gcalls = 0
    /\ glast = NoProbe

IdleBoot ==
    /\ bvariant = "Installer"
    /\ bisinstall = FALSE
    /\ bdisks = <<>>
    /\ bprimary = None
    /\ bres = [op |-> "idle", val |-> <<>>]

IdleInst ==
    /\ variant = "Installer"
    /\ _location = None
    /\ _cdrom = PyBool(FALSE)
    /\ _scratchdir = None
    /\ install_devices = <<>>
    /\ _tmpfiles = <<>>
    /\ _tmpvols = <<>>
    /\ resolves = [calls |-> 0, done |-> 0, late |-> 0, first |-> None]
    /\ last = [op |-> "idle"]

Init == IdleName /\ IdleBoot /\ InitInst
Next ==
    \/ SetCdrom
    \/ SetLocation
    \/ GetScratchdir
    \/ TrackTmpFile
    \/ TrackTmpVol
    \/ Cleanup
    \/ Prepare
Spec == Init /\ [][Next]_vars

InitNameSpec == InitName /\ IdleBoot /\ IdleInst
NextName == GenCollide \/ GenReturn \/ GenProbeRaise \/ GenExhausted
SpecName == InitNameSpec /\ [][NextName]_vars

InitBootSpec == IdleName /\ InitBoot /\ IdleInst
NextBoot == GetBootdev \/ GetBootdevBase \/ BuildBootOrder \/ BuildBootOrderHook
SpecBoot == InitBootSpec /\ [][NextBoot]_vars

------------------------------------------------------------------------------
(* Properties                                                             *)

HasDisk(disks) == \E i \in DOMAIN disks : disks[i] = DEVICE_DISK

(* C1: cleanup() attempts the deletion of every tracked temp file and     *)
(* volume even when an earlier deletion fails, and clears the tracking    *)
(* lists only after all attempts were made.                               *)
C1_CleanupAttemptsEveryEntry ==
    last.op = "cleanup" =>
        /\ last.attempts = last.pre
        /\ last.cleared => last.attempts = last.pre

(* C2 as stated: with force_num false and start_num 1, a run in which     *)
(* every candidate collides raises after exactly 100000 attempts.         *)
C2_ExhaustedAfterRangeSize ==
    (gresult.kind = "ValueError" /\ ~gin.force_num /\ gin.start_num = 1)
        => gtries = RangeSize

(* C2 amended: with force_num false and start_num 1, a run in which every *)
(* candidate collides ends in ValueError after exactly 100001 attempts:   *)
(* the un-numbered candidate and the 100000 numbered ones.                *)
C2_ExhaustedAfterRangePlusBase ==
    (gpc = "done" /\ ~gin.force_num /\ gin.start_num = 1) =>
        /\ WalksWholeRange(gin) => gresult.kind = "ValueError"
        /\ gresult.kind = "ValueError" => gtries = RangeSize + 1 /\ gi = RangeSize + 2

C2_Witness ==
    /\ gresult.kind = "ValueError"
    /\ ~gin.force_num
    /\ gin.start_num = 1
    /\ gtries > RangeSize

(* The candidate sequence and the collision test as the claim words them *)
ClaimCandidate(in, k) ==
    IF in.force_num
    THEN in.base \o in.sep \o ToString(in.start_num + k - 1) \o in.suffix
    ELSE IF k = 1 THEN in.base \o in.suffix
         ELSE in.base \o in.sep \o ToString(in.start_num + k - 2) \o in.suffix

ClaimProbeCollides(in, n) ==
    IF in.lib_collision
    THEN collision_cb(in.probe, n) \in {"False", "Truthy"}
    ELSE collision_cb(in.probe, n) = "Truthy"

ClaimFree(in, n) == n \notin in.collidelist /\ ~ClaimProbeCollides(in, n)

(* C3: the name returned is the first candidate of the sequence           *)
(* [base+suffix unless force_num, base+sep+start_num+suffix, ...] that is *)
(* neither in collidelist nor reported as colliding by the probe.         *)
C3_ReturnsFirstFreeCandidate ==
    gresult.kind = "return" =>
        \E k \in 1..gtries :
            /\ gresult.name = ClaimCandidate(gin, k)
            /\ ClaimFree(gin, gresult.name)
            /\ \A j \in 1..(k - 1) : ~ClaimFree(gin, ClaimCandidate(gin, j))

C3_Witness ==
    /\ gresult.kind = "return"
    /\ gtries >= 3
    /\ \E j \in 1..(gtries - 1) :
           /\ ClaimCandidate(gin, j) \in gin.collidelist
           /\ ~ClaimProbeCollides(gin, ClaimCandidate(gin, j))

(* C4: set_cdrom raises for every value that is not a bool (0, 1, None,   *)
(* a string) and leaves _cdrom unchanged; True and False are stored.      *)
C4_SetCdromRejectsNonBool ==
    last.op = "set_cdrom" =>
        IF last.arg.t = "bool"
        THEN last.ok /\ _cdrom = last.arg
        ELSE (~last.ok) /\ _cdrom = last.pre

(* C5: with lib_collision, a non-None probe result is a collision, a      *)
(* libvirtError is no collision, and any other exception leaves           *)
(* generate_name at once: no name is returned, no further candidate tried.*)
C5_SignalingConvention ==
    (gin.lib_collision /\ glast.out # "none") =>
        /\ glast.out \in {"False", "Truthy"} =>
               /\ gresult.kind \in {"none", "ValueError"}
               /\ gi = gtries + 1
        /\ glast.out = "libvirtError" =>
               /\ gpc = "done"
               /\ gresult = [kind |-> "return", name |-> glast.name]
        /\ glast.out = "otherError" =>
               /\ gpc = "done"
               /\ gresult = [kind |-> "otherError", name |-> NoName]
               /\ gtries = gi
               /\ glast.name = tryname(gin, gi)

C5_Witness ==
    /\ gin.lib_collision
    /\ glast.out = "otherError"
    /\ gtries >= 2
    /\ gpc = "done"

(* C6: set_location leaves _location as it was when the class's           *)
(* _validate_location raises, and otherwise stores the validated value:   *)
(* the cdrom device's path for LiveCDInstaller, the raw value elsewhere.  *)
C6_SetLocationAtomic ==
    last.op = "set_location" =>
        IF last.ok
        THEN _location = (IF variant = "LiveCDInstaller"
                          THEN VirtualDisk_path(last.arg) ELSE last.arg)
        ELSE _location = last.pre

C6_Witness ==
    /\ last.op = "set_location"
    /\ ~last.ok
    /\ variant = "LiveCDInstaller"
    /\ _location # None
    /\ VirtualDisk_path(last.arg) # _location

(* C7: PXEInstaller._get_bootdev returns hd exactly when isinstall is     *)
(* false and some disk, at any position, has device "disk"; else network. *)
C7_PXEBootDevice ==
    (bres.op = "_get_bootdev" /\ bvariant = "PXEInstaller") =>
        bres.val = <<IF (~bisinstall) /\ HasDisk(bdisks)
                     THEN BOOT_DEVICE_HARDDISK
                     ELSE BOOT_DEVICE_NETWORK>>

C7_Witness ==
    /\ bres.op = "_get_bootdev"
    /\ bvariant = "PXEInstaller"
    /\ ~bisinstall
    /\ Len(bdisks) >= 2
    /\ bdisks[1] # DEVICE_DISK
    /\ HasDisk(bdisks)
    /\ bres.val = <<BOOT_DEVICE_HARDDISK>>

(* C8: _build_boot_order returns [] for a None boot device; otherwise the *)
(* boot device, followed by hd exactly when some disk has device "disk"   *)
(* and the boot device is not hd.  So the list is non-empty, free of      *)
(* duplicates and at most two long.                                       *)
C8_BootOrder ==
    bres.op = "_build_boot_order" =>
        IF bprimary = None THEN bres.val = <<>>
        ELSE /\ bres.val = (IF HasDisk(bdisks) /\ bprimary # BOOT_DEVICE_HARDDISK
                            THEN <<bprimary, BOOT_DEVICE_HARDDISK>>
                            ELSE <<bprimary>>)
             /\ Len(bres.val) \in 1..2
             /\ bres.val[1] = bprimary
             /\ Cardinality({ bres.val[i] : i \in DOMAIN bres.val }) = Len(bres.val)

C8_Witness ==
    /\ bres.op = "_build_boot_order"
    /\ bprimary = BOOT_DEVICE_NETWORK
    /\ Len(bdisks) >= 2
    /\ bdisks[1] = DEVICE_CDROM
    /\ HasDisk(bdisks)
    /\ bres.val = <<BOOT_DEVICE_NETWORK, BOOT_DEVICE_HARDDISK>>

C10_PrepareStartsClean ==
    last.op = "prepare" =>
        /\ last.hook => last.cleaned
        /\ last.ok =>
            /\ _tmpfiles = <<>>
            /\ _tmpvols = <<>>
            /\ variant = "LiveCDInstaller" =>
                   install_devices = <<[device |-> DEVICE_CDROM,
                                        path |-> _location,
                                        read_only |-> TRUE]>>
            /\ variant \in {"ContainerInstaller", "PXEInstaller", "ImportInstaller"}
                   => install_devices = <<>>

C10_Witness ==
    /\ last.op = "prepare"
    /\ last.ok
    /\ variant = "LiveCDInstaller"
    /\ last.pre.devs = 1
    /\ last.pre.tracked > 0
    /\ Len(install_devices) = 1
    /\ _location # None

====
